---- MODULE Spec2Model ----
(***************************************************************************)
(* Model of the YouTube-to-MP3 service of src/server.js: the session       *)
(* registry behind POST /api/auth, the /api/info and /api/convert handlers *)
(* with their temp-file life cycle, and the periodic sweep of the temp     *)
(* directory (cleanupOldFiles on its 10-minute timer).                     *)
(*                                                                         *)
(* Time is Date.now() in milliseconds.  The specifications share the       *)
(* handlers and differ in what they follow: Spec the temp files under the  *)
(* sweep timer, SpecAuth the session registry over days, SpecUrl the       *)
(* validation of the url, SpecPipe the pipeline against its upstream       *)
(* services, SpecPair two requests at a time, SpecLimit the rate limiter,  *)
(* SpecName the filename of the download, SpecSweeps the executions of     *)
(* cleanupOldFiles in the part_001 variants, SpecStream the sizes of a     *)
(* download, SpecShape the shapes of the resolver's answer, SpecRedirect   *)
(* the downloads of the no-login variant (src/Dockerfile), and SpecYt the  *)
(* yt-dlp handler of part_001.                                             *)
(***************************************************************************)
EXTENDS Integers, Sequences, FiniteSets, TLC

(***************************************************************************)
(* Program constants (src/server.js).                                      *)
(***************************************************************************)
MAX_FILE_AGE_MS == 30 * 60 * 1000
SWEEP_INTERVAL_MS == 10 * 60 * 1000
SESSION_MAX_AGE_MS == 24 * 60 * 60 * 1000
AUTH_PASSWORD == "mihir123"

(***************************************************************************)
(* Bounds of the model.                                                    *)
(***************************************************************************)
\* Sweep intervals that may pass in one behaviour of Spec.
MaxTicks == 5
\* Half days that may pass in one behaviour of SpecAuth.
MaxHalfDays == 3
\* Session tokens generateSessionId may mint in one behaviour.
MaxTokens == 2
\* Temp paths the convert handler may allocate in one behaviour.
MaxPaths == 2
\* Redirect hops one download may be sent through in the model.
MaxHops == 1
\* Redirect hops one download may be sent through in SpecPipe.
MaxChain == 6
\* Clock steps that may pass in one behaviour of SpecLimit.
MaxLimitTicks == 3
\* Requests beyond the ceiling that the client may send in one window.
MaxOver == 2
\* Intervals of the sweep timer that may pass in one behaviour of SpecSweeps.
MaxSweepTicks == 2
\* Chunks one download may write to its temp file in SpecStream.
MaxChunks == 2

HALF_DAY_MS == 12 * 60 * 60 * 1000

\* Request slots: HTTP requests that can be in flight at the same time.
Reqs == {1, 2}

NoToken == 0
NoPath == 0
NoPassword == "<none>"
\* A url parameter that is absent (undefined) or empty: `!url` holds of both.
NoUrl == <<>>

Passwords == {AUTH_PASSWORD, "wrong", NoPassword}
Tokens == 1..MaxTokens
\* What a request may carry as x-session-id: nothing, or a token-shaped
\* string (one that was issued, or one that was not).
PresentedTokens == Tokens \cup {NoToken}

VARIABLES
    now,        \* Date.now(), in ms
    ticks,      \* clock ticks taken so far
    sessions,   \* the sessions Map: token -> createdAt
    minted,     \* how many distinct tokens generateSessionId has produced
    sameMs,     \* [tok, path]: the latest token / temp path was produced in
                \* the current millisecond (same Date.now())
    authResp,   \* the last exchange of POST /api/auth:
                \* [password, status, token, error, fresh]; fresh: the
                \* token was never returned before
    lastLogin,  \* time of the last successful POST /api/auth (-1: none yet)
    evicted,    \* tokens deleted from the registry so far
    req,        \* the request slots: the requests in flight
    sent,       \* what the latest step ended: the request it answered (or
                \* whose client it lost) with the response; Nothing otherwise
    dir,        \* the temp directory: file name -> mtimeMs (in SpecYt a
                \* name is <<base, extension>>)
    allocated,  \* how many distinct temp paths have been allocated
    missed,     \* files a sweep should have deleted but did not reach:
                \* name -> the mtime the file had then
    sweep,      \* the run of cleanupOldFiles in progress, or the last one
    timerDue,   \* the setInterval timer has fired and its callback is pending
    limiter,    \* the rate limiter's record of the one client
    offer,      \* a download offered to the client: [variant, title, filename]
    runs        \* part_001: the executions of cleanupOldFiles, by what
                \* started them

vars == <<now, ticks, sessions, minted, sameMs, authResp, lastLogin, evicted,
          req, sent, dir, allocated, missed, sweep, timerDue, limiter, offer, runs>>

authVars == <<sessions, minted, authResp, lastLogin, evicted>>
fileVars == <<dir, allocated>>
sweepVars == <<sweep, timerDue>>
clockVars == <<now, ticks>>
otherVars == <<offer, runs>>

(***************************************************************************)
(* Helpers on functions used as maps.                                      *)
(***************************************************************************)
MapSet(m, k, v) == [x \in DOMAIN m \cup {k} |-> IF x = k THEN v ELSE m[x]]
MapDel(m, ks) == [x \in DOMAIN m \ ks |-> m[x]]
EmptyMap == [x \in {} |-> 0]

(***************************************************************************)
(* URLs.  A url is the sequence of its characters; the patterns of          *)
(* extractVideoId and the checks of validator.isURL run on the characters. *)
(***************************************************************************)
LowerCase ==
    {"a", "b", "c", "d", "e", "f", "g", "h", "i", "j", "k", "l", "m",
     "n", "o", "p", "q", "r", "s", "t", "u", "v", "w", "x", "y", "z"}
UpperCase ==
    {"A", "B", "C", "D", "E", "F", "G", "H", "I", "J", "K", "L", "M",
     "N", "O", "P", "Q", "R", "S", "T", "U", "V", "W", "X", "Y", "Z"}
Digit == {"0", "1", "2", "3", "4", "5", "6", "7", "8", "9"}
\* [a-zA-Z0-9_-]
IdChar == LowerCase \cup UpperCase \cup Digit \cup {"_", "-"}
\* {11}
ID_LENGTH == 11

\* The alternatives of the first pattern of extractVideoId, in their order:
\* youtube\.com\/watch\?v= | youtu\.be\/ | youtube\.com\/embed\/ |
\* youtube\.com\/v\/
IdPrefixes ==
    << <<"y", "o", "u", "t", "u", "b", "e", ".", "c", "o", "m",
         "/", "w", "a", "t", "c", "h", "?", "v", "=">>,
       <<"y", "o", "u", "t", "u", ".", "b", "e", "/">>,
       <<"y", "o", "u", "t", "u", "b", "e", ".", "c", "o", "m",
         "/", "e", "m", "b", "e", "d", "/">>,
       <<"y", "o", "u", "t", "u", "b", "e", ".", "c", "o", "m",
         "/", "v", "/">> >>

\* The literal lit occurs in s at position i.
LitAt(s, i, lit) ==
    /\ i + Len(lit) - 1 <= Len(s)
    /\ \A k \in 1..Len(lit) : s[i + k - 1] = lit[k]

\* ([a-zA-Z0-9_-]{11}) matches in s at position i.
IdAt(s, i) ==
    /\ i + ID_LENGTH - 1 <= Len(s)
    /\ \A k \in 0..(ID_LENGTH - 1) : s[i + k] \in IdChar

\* The alternatives of the first pattern that match in s at position i.
PrefixesAt(s, i) ==
    {p \in DOMAIN IdPrefixes :
        LitAt(s, i, IdPrefixes[p]) /\ IdAt(s, i + Len(IdPrefixes[p]))}

SetMin(S) == CHOOSE x \in S : \A y \in S : x <= y

NoId == <<>>

\* extractVideoId(url): the first pattern is searched anywhere in the url
\* (leftmost match, alternatives in order) and its group is returned; else
\* the url must be exactly 11 id characters; else null.
extractVideoId(url) ==
    LET starts == {i \in 1..Len(url) : PrefixesAt(url, i) # {}}
    IN  IF starts # {}
        THEN LET i == SetMin(starts)
                 p == SetMin(PrefixesAt(url, i))
                 from == i + Len(IdPrefixes[p])
             IN  SubSeq(url, from, from + ID_LENGTH - 1)
        ELSE IF Len(url) = ID_LENGTH /\ IdAt(url, 1) THEN url
        ELSE NoId

\* The schemes isURL is called with: protocols: ['http', 'https'].
Protocols == {<<"h", "t", "t", "p">>, <<"h", "t", "t", "p", "s">>}

\* Where the host of url ends when it starts at position from: before the
\* first "/", "?" or "#", or at the end of the url.
HostEnd(url, from) ==
    LET stops == {j \in from..Len(url) : url[j] \in {"/", "?", "#"}}
    IN  IF stops = {} THEN Len(url) ELSE SetMin(stops) - 1

\* validator's isFQDN with require_tld: labels of letters, digits and "-"
\* separated by ".", none empty, none starting or ending with "-", at least
\* two of them, the last one of two or more letters.
isFQDN(host) ==
    LET dots == {i \in 1..Len(host) : host[i] = "."}
        edge(i) == i = 0 \/ i = Len(host) + 1 \/ i \in dots
        tld == IF dots = {} THEN 1
               ELSE CHOOSE i \in dots : \A j \in dots : j <= i
    IN  /\ dots # {}
        /\ \A i \in 1..Len(host) :
              /\ host[i] \in LowerCase \cup UpperCase \cup Digit \cup {"-", "."}
              /\ host[i] = "." => ~edge(i - 1) /\ ~edge(i + 1)
              /\ host[i] = "-" => ~edge(i - 1) /\ ~edge(i + 1)
        /\ Len(host) - tld >= 2
        /\ \A i \in (tld + 1)..Len(host) : host[i] \in LowerCase \cup UpperCase

\* Mutant of isURL: require_protocol is off and any scheme passes.
isURLAnyScheme(url) ==
    LET seps == {i \in 1..Len(url) : LitAt(url, i, <<":", "/", "/">>)}
        from == IF seps = {} THEN 1 ELSE SetMin(seps) + 3
    IN  /\ \A i \in 1..Len(url) : url[i] # " "
        /\ isFQDN(SubSeq(url, from, HostEnd(url, from)))

\* validator.isURL(url, {protocols: ['http','https'], require_protocol: true})
\* for urls without user info and port: no white space, one of the protocols
\* followed by "://", then a host that is a fully qualified domain name.
isURL(url) ==
    /\ \A i \in 1..Len(url) : url[i] # " "
    /\ \E scheme \in Protocols :
         /\ LitAt(url, 1, scheme \o <<":", "/", "/">>)
         /\ LET from == Len(scheme) + 4
            IN  isFQDN(SubSeq(url, from, HostEnd(url, from)))

\* The pieces the urls of SpecUrl are put together from.
Piece ==
    [ https_scheme |->
        <<"h", "t", "t", "p", "s", ":", "/", "/">>,
      http_scheme |->
        <<"h", "t", "t", "p", ":", "/", "/">>,
      ftp_scheme |->
        <<"f", "t", "p", ":", "/", "/">>,
      www_youtube_com |->
        <<"w", "w", "w", ".", "y", "o", "u", "t", "u", "b", "e", ".", "c", "o", "m">>,
      youtube_com |->
        <<"y", "o", "u", "t", "u", "b", "e", ".", "c", "o", "m">>,
      m_youtube_com |->
        <<"m", ".", "y", "o", "u", "t", "u", "b", "e", ".", "c", "o", "m">>,
      youtu_be |->
        <<"y", "o", "u", "t", "u", ".", "b", "e">>,
      evil_com |->
        <<"e", "v", "i", "l", ".", "c", "o", "m">>,
      notyoutube_com |->
        <<"n", "o", "t", "y", "o", "u", "t", "u", "b", "e", ".", "c", "o", "m">>,
      watch_path |->
        <<"/", "w", "a", "t", "c", "h", "?", "v", "=">>,
      watch_later_v_path |->
        <<"/", "w", "a", "t", "c", "h", "?", "t", "=", "1", "&", "v", "=">>,
      embed_path |->
        <<"/", "e", "m", "b", "e", "d", "/">>,
      short_path |->
        <<"/">>,
      nested_path |->
        <<"/", "y", "o", "u", "t", "u", ".", "b", "e", "/">>,
      id_a |->
        <<"d", "Q", "w", "4", "w", "9", "W", "g", "X", "c", "Q">>,
      id_b |->
        <<"9", "b", "Z", "k", "p", "7", "q", "1", "9", "f", "0">>,
      id_too_long |->
        <<"d", "Q", "w", "4", "w", "9", "W", "g", "X", "c", "Q", "x">>,
      no_tail |->
        <<>>,
      time_tail |->
        <<"&", "t", "=", "4", "2">>,
      not_a_url |->
        <<"n", "o", "t", "-", "a", "-", "u", "r", "l">> ]

VideoIds == {Piece.id_a, Piece.id_b}
IdTokens == VideoIds \cup {Piece.id_too_long}

\* A url in pieces, and the text of it that a request carries.
UrlParts ==
    [scheme : {Piece.https_scheme, Piece.http_scheme, Piece.ftp_scheme},
     host : {Piece.www_youtube_com, Piece.youtu_be, Piece.evil_com,
             Piece.notyoutube_com},
     path : {Piece.watch_path, Piece.watch_later_v_path, Piece.embed_path,
             Piece.short_path, Piece.nested_path},
     id : IdTokens,
     tail : {Piece.no_tail, Piece.time_tail}]
Text(u) == u.scheme \o u.host \o u.path \o u.id \o u.tail

\* Values of the url parameter that are no url: none, not-a-url, bare ids.
RawUrls == {NoUrl, Piece.not_a_url} \cup IdTokens

\* The urls the requests of SpecUrl carry.
UrlSamples == {Text(u) : u \in UrlParts} \cup RawUrls

\* The urls the requests of Spec and SpecAuth carry: none, a page that is no
\* video, a short url.
Urls ==
    {NoUrl,
     <<"h", "t", "t", "p", "s", ":", "/", "/", "e", "x", "a",
       "m", "p", "l", "e", ".", "c", "o", "m", "/", "p", "a",
       "g", "e">>,
     <<"h", "t", "t", "p", "s", ":", "/", "/", "y", "o", "u",
       "t", "u", ".", "b", "e", "/", "d", "Q", "w", "4", "w",
       "9", "W", "g", "X", "c", "Q">>}

\* extractVideoId and validator.isURL on the urls of the model, each computed
\* once.
videoIdOf == [url \in Urls \cup UrlSamples |-> extractVideoId(url)]
validUrl == [url \in Urls \cup UrlSamples |-> isURL(url)]

(***************************************************************************)
(* Session registry: generateSessionId, isAuthenticated, POST /api/auth.   *)
(***************************************************************************)

\* generateSessionId(): Math.random() in base 36 followed by Date.now() in
\* base 36.  The outcomes are a token never produced before, or the token
\* already produced in this same millisecond when Math.random() repeats.
generateSessionId ==
    {t \in Tokens : t = minted + 1} \cup {t \in Tokens : sameMs.tok /\ t = minted}

\* Mutant of isAuthenticated: any token-shaped value passes.
isAuthenticatedAnyToken(token) == token # NoToken

\* isAuthenticated(req): sessions.has(header || query.sessionId); a missing
\* token is undefined, which is no key of the Map.
isAuthenticated(token) == token \in DOMAIN sessions

\* Mutant of SessionExpired: a session of exactly 24 hours is deleted too.
SessionExpiredInclusive(createdAt, t) == t - createdAt >= SESSION_MAX_AGE_MS

\* The test of the clean-up loop of POST /api/auth.
SessionExpired(createdAt, t) == t - createdAt > SESSION_MAX_AGE_MS

\* Mutant of ExpiredSessions: the clean-up loop is missing.
NoExpiredSessions(s, t) == {}

\* The clean-up loop of POST /api/auth: the tokens it deletes from s at time t.
ExpiredSessions(s, t) == {sid \in DOMAIN s : SessionExpired(s[sid], t)}

\* Mutant of PasswordMatches: a body without password passes as well, as
\* with an AUTH_PASSWORD that is undefined.
PasswordMissingPasses(password) == password \in {AUTH_PASSWORD, NoPassword}

\* Mutant of PasswordMatches: any password that is given passes.
PasswordMatchesAny(password) == password # NoPassword

\* password === AUTH_PASSWORD
PasswordMatches(password) == password = AUTH_PASSWORD

\* A response body without a `details` member.
NoDetails == ""
\* The request holds no parsed answer of the resolver (yet).
NoAnswer == <<>>
\* A response on which no Content-Length header has been set.
NoLength == -1

Nothing ==
    [phase |-> "idle", kind |-> "none", tok |-> NoToken, known |-> FALSE,
     stale |-> FALSE, wasEvicted |-> FALSE, path |-> NoPath, status |-> 0,
     error |-> "", calls |-> 0, hops |-> 0, unlinks |-> 0,
     headersSent |-> FALSE, url |-> NoUrl, videoId |-> NoId,
     downloads |-> 0, details |-> NoDetails, responses |-> 0,
     written |-> 0, length |-> NoLength, body |-> 0, answer |-> NoAnswer,
     gets |-> 0, logged |-> "", tried |-> {}]

\* POST /api/auth with body {password}.
Auth(password) ==
    /\ IF PasswordMatches(password)
       THEN \E sessionId \in generateSessionId :
              LET set == MapSet(sessions, sessionId, now)
                  old == ExpiredSessions(set, now)
              IN /\ sessions' = MapDel(set, old)
                 /\ evicted' = (evicted \ {sessionId}) \cup old
                 /\ minted' = IF sessionId > minted THEN sessionId ELSE minted
                 /\ sameMs' = [sameMs EXCEPT !.tok = TRUE]
                 /\ lastLogin' = now
                 /\ authResp' = [password |-> password, status |-> 200,
                                 token |-> sessionId, error |-> "",
                                 fresh |-> sessionId > minted]
       ELSE /\ authResp' = [password |-> password, status |-> 401,
                            token |-> NoToken, error |-> "Invalid password",
                            fresh |-> FALSE]
            /\ UNCHANGED <<sessions, evicted, minted, sameMs, lastLogin>>
    /\ sent' = Nothing
    /\ UNCHANGED <<clockVars, req, fileVars, missed, sweepVars, limiter, otherVars>>

(***************************************************************************)
(* Request slots and the synchronous head of the two protected handlers.   *)
(***************************************************************************)
\* A slot is free when it holds no request, or one whose download hangs for
\* good (its client gives up).
FreePhases == {"idle", "hung"}
IdleReq == Nothing

\* res.status(code).json({error}) : the request is answered.
Respond(q, code, error) ==
    [q EXCEPT !.phase = "done", !.status = code, !.error = error,
              !.responses = @ + 1]

\* A request as it enters a handler, before any of the handler's code, with
\* what is true of its token at that moment.
Incoming(kind, token, url) ==
    [Nothing EXCEPT !.phase = "entered", !.kind = kind, !.tok = token,
        !.url = url,
        !.known = (token \in DOMAIN sessions),
        !.stale = (token \in DOMAIN sessions
                     /\ now - sessions[token] > SESSION_MAX_AGE_MS),
        !.wasEvicted = (token \in evicted)]

\* const videoId = extractVideoId(url), and rapidApiRequest(path) has been
\* issued with it; the handler awaits it.
CallResolver(q, videoId) ==
    [q EXCEPT !.phase = "resolving", !.calls = @ + 1, !.videoId = videoId]

\* app.get('/api/info') up to its first await.
InfoHead(q, url) ==
    IF ~isAuthenticated(q.tok) THEN Respond(q, 401, "Unauthorized")
    ELSE IF url = NoUrl THEN Respond(q, 400, "URL is required")
    ELSE IF videoIdOf[url] = NoId
         THEN Respond(q, 400, "Invalid YouTube URL")
    ELSE CallResolver(q, videoIdOf[url])

\* Mutant of ConvertHead: the isAuthenticated test is missing.
ConvertHeadNoGate(q, url) ==
    IF url = NoUrl \/ ~validUrl[url]
         THEN Respond(q, 400, "Invalid YouTube URL")
    ELSE IF videoIdOf[url] = NoId
         THEN Respond(q, 400, "Could not extract video ID from URL")
    ELSE CallResolver(q, videoIdOf[url])

\* app.get('/api/convert') up to its first await.
ConvertHead(q, url) ==
    IF ~isAuthenticated(q.tok) THEN Respond(q, 401, "Unauthorized")
    ELSE IF url = NoUrl \/ ~validUrl[url]
         THEN Respond(q, 400, "Invalid YouTube URL")
    ELSE IF videoIdOf[url] = NoId
         THEN Respond(q, 400, "Could not extract video ID from URL")
    ELSE CallResolver(q, videoIdOf[url])

\* The handler of slot r has run up to its next await, or to its end, and
\* the request is now q: in flight, or over ("done": answered; "aborted": its
\* client is gone), which frees the slot.
Becomes(r, q) ==
    IF q.phase \in {"done", "aborted"}
    THEN /\ req' = [req EXCEPT ![r] = IdleReq]
         /\ sent' = q
    ELSE /\ req' = [req EXCEPT ![r] = q]
         /\ sent' = Nothing

\* A new request takes the first free slot.
FirstFree(r) ==
    /\ req[r].phase \in FreePhases
    /\ \A o \in Reqs : o < r => req[o].phase \notin FreePhases

\* GET /api/info?url=... arrives with a token (or none).
ApiInfo(r, token, url) ==
    /\ FirstFree(r)
    /\ Becomes(r, InfoHead(Incoming("info", token, url), url))
    /\ UNCHANGED <<clockVars, authVars, sameMs, fileVars, missed, sweepVars>>

\* GET /api/convert?url=... arrives with a token (or none).
ApiConvert(r, token, url) ==
    /\ FirstFree(r)
    /\ Becomes(r, ConvertHead(Incoming("convert", token, url), url))
    /\ UNCHANGED <<clockVars, authVars, sameMs, fileVars, missed, sweepVars>>

\* rapidApiRequest: the upstream service accepts the request and never
\* answers.  No timeout is set on the request, so neither 'end' nor 'error'
\* comes, the promise never settles and the handler stays at its await.
ResolverSilent(r) ==
    /\ req[r].phase = "resolving"
    /\ Becomes(r, [req[r] EXCEPT !.phase = "hung"])
    /\ UNCHANGED <<clockVars, authVars, sameMs, fileVars, missed,
                 sweepVars, limiter, otherVars>>

\* /api/info after its await: the resolver's answer, or the rejection of the
\* promise (network error, unparsable body).
InfoResolved(r, result) ==
    /\ req[r].phase = "resolving"
    /\ req[r].kind = "info"
    /\ Becomes(r,
         CASE result = "reject" ->
                Respond(req[r], 500, "Failed to get video info")
           [] result = "notitle" ->
                Respond(req[r], 400,
                  "Could not fetch video info. Please try a different video.")
           [] OTHER -> Respond(req[r], 200, ""))
    /\ UNCHANGED <<clockVars, authVars, sameMs, fileVars, missed,
                 sweepVars, limiter, otherVars>>

(***************************************************************************)
(* /api/convert after the resolver call: temp path, downloadFile, stream.  *)
(***************************************************************************)

\* path.join(TEMP_DIR, `${Date.now()}-${Math.random()...}.mp3`): a name never
\* used before, or the name already produced in this same millisecond when
\* Math.random() repeats.
tempPath ==
    {p \in 1..MaxPaths : p = allocated + 1}
        \cup {p \in 1..MaxPaths : sameMs.path /\ p = allocated}

\* What the resolver's answer may carry as its `error` or `message` member:
\* nothing, or a text of the upstream service.
NoText == ""
ResolverTexts ==
    {NoText, "Video unavailable",
     "You have exceeded the MONTHLY quota for Requests on your current plan"}

\* The messages of the errors that reject the promise of rapidApiRequest: its
\* own, and that of the 'error' event of the request.
ResolverErrors ==
    {"Failed to parse API response",
     "getaddrinfo ENOTFOUND youtube-mp3-audio-video-downloader.p.rapidapi.com"}

\* details: result.error || result.message || 'Unknown error'
UNKNOWN_ERROR == "Unknown error"
NoLinkDetails(text) == IF text = NoText THEN UNKNOWN_ERROR ELSE text

\* Mutant of ConvertCatch: a failure is retried once before it is reported.
ConvertCatchRetries(q, message) ==
    IF q.calls < 2 /\ q.path = NoPath
    THEN [q EXCEPT !.phase = "resolving", !.calls = @ + 1]
    ELSE [Respond(q, 500, "Conversion failed. Please try again.")
             EXCEPT !.details = message]

\* The catch block of app.get('/api/convert'): the error's message goes into
\* the body as `details`.
ConvertCatch(q, message) ==
    [Respond(q, 500, "Conversion failed. Please try again.")
        EXCEPT !.details = message]

\* A member of the resolver's answer that is missing (undefined in the
\* handler), and a download link.
Absent == "<undefined>"
LINK == "https://cdn.example/audio.mp3"

\* Mutant of Truthy: only a missing member counts as no link.
NotUndefined(x) == x # Absent

\* JavaScript truthiness of a member that is a string or is missing.
Truthy(x) == x \notin {Absent, ""}

\* a || b
Or(a, b) == IF Truthy(a) THEN a ELSE b

\* The elements result.formats may hold: null, or an object with some of
\* mimeType, format, url and link.
Format ==
    LET none == [isNull |-> FALSE, mimeType |-> Absent, format |-> Absent,
                 url |-> Absent, link |-> Absent]
    IN  [null |-> [none EXCEPT !.isNull = TRUE],
         video |-> [none EXCEPT !.mimeType = "video/mp4", !.format = "mp4",
                                !.url = LINK],
         audio |-> [none EXCEPT !.mimeType = "audio/mp4", !.url = LINK],
         mp3 |-> [none EXCEPT !.format = "mp3", !.link = LINK],
         bare |-> [none EXCEPT !.mimeType = "audio/webm"]]

\* The parsed answers of the resolver: each of link, url and downloadUrl is
\* missing, empty or a link; audio is missing or an object; formats is
\* missing, an array, or an object that is no array.
Answers ==
    [link : {Absent, "", LINK}, url : {Absent, "", LINK},
     downloadUrl : {Absent, "", LINK},
     audio : {[present |-> FALSE, url |-> Absent, link |-> Absent],
              [present |-> TRUE, url |-> Absent, link |-> Absent],
              [present |-> TRUE, url |-> LINK, link |-> Absent],
              [present |-> TRUE, url |-> Absent, link |-> LINK]},
     formats : {[kind |-> "absent", items |-> <<>>],
                [kind |-> "object", items |-> <<>>]}
               \cup {[kind |-> "array", items |-> a] :
                        a \in {<<>>, <<Format.video>>, <<Format.audio>>,
                               <<Format.video, Format.mp3>>,
                               <<Format.bare, Format.audio>>,
                               <<Format.null>>,
                               <<Format.audio, Format.null>>}}]

\* What the response shape check throws instead of yielding a value.
Throws == "<TypeError>"

\* f.mimeType?.includes('audio') || f.format === 'mp3'
IsAudioFormat(f) ==
    f.mimeType \in {"audio/mp4", "audio/webm"} \/ f.format = "mp3"

RECURSIVE Find(_, _)
\* result.formats.find(...) from element i on: the index of the first audio
\* format, 0 if there is none, -1 if the callback throws on a null element.
Find(items, i) ==
    IF i > Len(items) THEN 0
    ELSE IF items[i].isNull THEN -1
    ELSE IF IsAudioFormat(items[i]) THEN i
    ELSE Find(items, i + 1)

\* The response shape check: the value of downloadUrl after the chain of
\* if / else if, or Throws.
DownloadUrlOf(result) ==
    IF Truthy(result.link) THEN result.link
    ELSE IF Truthy(result.url) THEN result.url
    ELSE IF Truthy(result.downloadUrl) THEN result.downloadUrl
    ELSE IF result.audio.present
         THEN Or(result.audio.url, result.audio.link)
    ELSE IF result.formats.kind = "absent" THEN Absent
    ELSE IF result.formats.kind = "object" THEN Throws
    ELSE LET i == Find(result.formats.items, 1)
         IN  IF i = -1 THEN Throws
             ELSE IF i = 0 THEN Absent
             ELSE Or(result.formats.items[i].url, result.formats.items[i].link)

\* How the handler goes on after the shape check of an answer.
ShapeOf(result) ==
    LET downloadUrl == DownloadUrlOf(result)
    IN  IF downloadUrl = Throws THEN "throws"
        ELSE IF ~Truthy(downloadUrl) THEN "nolink"
        ELSE "link"

\* /api/convert after `await rapidApiRequest`, for the request q of slot r:
\* the promise rejected, the shape check threw, the answer holds no download
\* link, or it holds one; then the temp path is allocated and downloadFile
\* creates the write stream (the file) and issues the first request.
AfterResolver(r, q, result) ==
    /\ req[r].phase = "resolving"
    /\ req[r].kind = "convert"
    /\ CASE result = "reject" ->
              /\ \E message \in ResolverErrors :
                     Becomes(r, ConvertCatch(q, message))
              /\ UNCHANGED <<fileVars, sameMs>>
         [] result = "throws" ->
              /\ Becomes(r, ConvertCatch(q,
                     "Cannot read properties of null (reading 'mimeType')"))
              /\ UNCHANGED <<fileVars, sameMs>>
         [] result = "nolink" ->
              /\ \E text \in ResolverTexts :
                     Becomes(r, [Respond(q, 400,
                       "Could not get download link. The video might be restricted or unavailable.")
                         EXCEPT !.details = NoLinkDetails(text)])
              /\ UNCHANGED <<fileVars, sameMs>>
         [] OTHER ->
              \E p \in tempPath :
                /\ Becomes(r, [q EXCEPT !.phase = "requesting", !.path = p,
                                        !.downloads = @ + 1])
                /\ dir' = MapSet(dir, p, now)
                /\ allocated' = IF p > allocated THEN p ELSE allocated
                /\ sameMs' = [sameMs EXCEPT !.path = TRUE]
    /\ UNCHANGED <<clockVars, authVars, missed, sweepVars, limiter, otherVars>>

\* The same with the outcome of the resolver call and of the shape check
\* given as one word.
ConvertResolved(r, result) == AfterResolver(r, req[r], result)

\* The same with the parsed answer of the resolver given member by member.
ConvertShaped(r, result) ==
    AfterResolver(r, [req[r] EXCEPT !.answer = result], ShapeOf(result))

\* downloadFile, makeRequest: a 3xx answer with a location header; the next
\* request is issued.  The code counts nothing; a behaviour of the model
\* follows at most `most` hops.
Redirect(r, most) ==
    /\ req[r].phase = "requesting"
    /\ req[r].hops < most
    /\ Becomes(r, [req[r] EXCEPT !.hops = @ + 1])
    /\ UNCHANGED <<clockVars, authVars, sameMs, fileVars, missed,
                 sweepVars, limiter, otherVars>>

DownloadRedirect(r) == Redirect(r, MaxHops)

\* A redirect of a long chain, or of a cycle.
DownloadRedirectChain(r) == Redirect(r, MaxChain)

\* downloadFile: an answer whose status is not 200 rejects the promise; the
\* handler's catch block answers.
DownloadBadStatus(r) ==
    /\ req[r].phase = "requesting"
    /\ Becomes(r, ConvertCatch(req[r], "Download failed with status 403"))
    /\ UNCHANGED <<clockVars, authVars, sameMs, fileVars, missed,
                 sweepVars, limiter, otherVars>>

\* fs.unlink(q.path) by the handler of request q: the directory afterwards
\* (ENOENT leaves it as it is).
Unlinked(q, before) ==
    IF q.unlinks > before.unlinks THEN MapDel(dir, {q.path}) ELSE dir

\* The 'error' handler of the request in downloadFile: unlink(destPath).
DownloadErrorHandler(q) == [q EXCEPT !.unlinks = @ + 1]

\* downloadFile: the request emits 'error' (before or during the transfer):
\* unlink(destPath), reject; the handler's catch block answers.
DownloadError(r) ==
    /\ req[r].phase \in {"requesting", "receiving"}
    /\ LET q == DownloadErrorHandler(req[r])
       IN /\ Becomes(r, ConvertCatch(q, "socket hang up"))
          /\ dir' = Unlinked(q, req[r])
    /\ UNCHANGED <<clockVars, authVars, sameMs, allocated, missed,
                 sweepVars, limiter, otherVars>>

\* downloadFile: a 200 answer is piped into the write stream.
DownloadOk(r) ==
    /\ req[r].phase = "requesting"
    /\ Becomes(r, [req[r] EXCEPT !.phase = "receiving", !.hops = 0])
    /\ UNCHANGED <<clockVars, authVars, sameMs, fileVars, missed,
                 sweepVars, limiter, otherVars>>

\* A chunk of the answer is written to the file: its mtime becomes now.
DownloadData(r) ==
    /\ req[r].phase = "receiving"
    /\ req[r].path \in DOMAIN dir
    /\ dir[req[r].path] # now
    /\ dir' = [dir EXCEPT ![req[r].path] = now]
    /\ sent' = Nothing
    /\ UNCHANGED <<clockVars, authVars, sameMs, req, allocated, missed,
                 sweepVars, limiter, otherVars>>

\* A chunk of the answer is written to the file: the file grows by it and its
\* mtime becomes now.
DownloadChunk(r) ==
    /\ req[r].phase = "receiving"
    /\ req[r].path \in DOMAIN dir
    /\ req[r].written < MaxChunks
    /\ Becomes(r, [req[r] EXCEPT !.written = @ + 1])
    /\ dir' = [dir EXCEPT ![req[r].path] = now]
    /\ UNCHANGED <<clockVars, authVars, sameMs, allocated, missed,
                 sweepVars, limiter, otherVars>>

\* The transfer is cut without an 'error' on the request: the write stream
\* never finishes and the promise of downloadFile never settles.
DownloadStall(r) ==
    /\ req[r].phase = "receiving"
    /\ Becomes(r, [req[r] EXCEPT !.phase = "hung"])
    /\ UNCHANGED <<clockVars, authVars, sameMs, fileVars, missed,
                 sweepVars, limiter, otherVars>>

\* Mutant of StatSize: the size is the one the file had when it was created.
StatSizeAtCreation(q) == 0

\* stats.size of `await fs.stat(tempPath)`: what the download of q, the one
\* writer of the file, has written to it.
StatSize(q) == q.written

\* The write stream finishes: downloadFile resolves, the handler stats the
\* file (ENOENT goes to the catch block), sets the headers, Content-Length
\* among them, and pipes a read stream of the file into the response.
DownloadFinish(r) ==
    /\ req[r].phase = "receiving"
    /\ Becomes(r, IF req[r].path \in DOMAIN dir
                  THEN [req[r] EXCEPT !.phase = "streaming",
                                      !.length = StatSize(req[r])]
                  ELSE ConvertCatch(req[r],
                         "ENOENT: no such file or directory, stat"))
    /\ UNCHANGED <<clockVars, authVars, sameMs, fileVars, missed,
                 sweepVars, limiter, otherVars>>

\* Mutant of StreamClose: the handler does not unlink.
StreamCloseForgets(q) == q

\* The 'close' handler of the read stream: fs.unlink(tempPath), failures
\* logged.
StreamClose(q) == [q EXCEPT !.unlinks = @ + 1]

\* The read stream has piped what it read of the file into the response:
\* the whole file, or (note "truncated") all but what the read error cut off.
Streamed(q, note) ==
    [q EXCEPT !.phase = "done", !.status = 200, !.headersSent = TRUE,
              !.error = note, !.responses = @ + 1,
              !.body = IF note = "" \/ q.written = 0 THEN q.written
                       ELSE q.written - 1]

\* Mutant of OnStreamError: the test of res.headersSent is missing.
OnStreamErrorUnguarded(q) == Respond(q, 500, "Download failed")

\* readStream.on('error'): the error is logged, and answered 500 when no
\* header has been sent yet.
OnStreamError(q) ==
    IF ~q.headersSent THEN Respond(q, 500, "Download failed") ELSE q

\* The read stream reaches the end of the file: 'end', then 'close'.
StreamEnd(r) ==
    /\ req[r].phase = "streaming"
    /\ LET q == StreamClose(req[r])
       IN /\ Becomes(r, Streamed(q, ""))
          /\ dir' = Unlinked(q, req[r])
    /\ UNCHANGED <<clockVars, authVars, sameMs, allocated, missed,
                 sweepVars, limiter, otherVars>>

\* The read stream emits 'error' (then 'close'): before anything was written
\* to the response the 'error' handler answers 500, afterwards it only logs
\* and the response stays short of its Content-Length.
StreamError(r, early) ==
    /\ req[r].phase = "streaming"
    /\ LET q == StreamClose(req[r])
       IN /\ Becomes(r, OnStreamError(IF early THEN q
                                      ELSE Streamed(q, "truncated")))
          /\ dir' = Unlinked(q, req[r])
    /\ UNCHANGED <<clockVars, authVars, sameMs, allocated, missed,
                 sweepVars, limiter, otherVars>>

\* What the handler does when the response closes under the stream: nothing
\* (it listens to no event of res; readStream.pipe(res) unpipes and pauses
\* the read stream, which emits neither 'end' nor 'close').
ResponseClosed(q) ==
    [q EXCEPT !.phase = "aborted", !.headersSent = TRUE, !.responses = @ + 1]

\* The client disconnects while the file is being streamed, with part of the
\* file still unread.
ClientAbort(r) ==
    /\ req[r].phase = "streaming"
    /\ LET q == ResponseClosed(req[r])
       IN /\ Becomes(r, q)
          /\ dir' = Unlinked(q, req[r])
    /\ UNCHANGED <<clockVars, authVars, sameMs, allocated, missed,
                 sweepVars, limiter, otherVars>>

(***************************************************************************)
(* The no-login variant (src/Dockerfile): downloadFile counts redirects.   *)
(***************************************************************************)
\* redirectCount > 5 in the no-login variant of downloadFile.
MAX_REDIRECTS == 5

\* Mutant of TooManyRedirects: the fifth redirect is refused already.
TooManyRedirectsInclusive(redirectCount) == redirectCount >= MAX_REDIRECTS

\* if (redirectCount > 5)
TooManyRedirects(redirectCount) == redirectCount > MAX_REDIRECTS

\* The catch block of the no-login app.get('/api/convert'): the message is
\* logged, the body carries a fixed text.
NoLoginCatch(q, message) ==
    [Respond(q, 500, "Conversion failed. Please try again.")
        EXCEPT !.logged = message]

\* makeRequest(downloadUrl, redirectCount) for the download of request q:
\* the promise is rejected, or protocol.get issues one more HTTP request.
MakeRequest(q, redirectCount) ==
    IF TooManyRedirects(redirectCount)
    THEN NoLoginCatch([q EXCEPT !.hops = redirectCount], "Too many redirects")
    ELSE [q EXCEPT !.phase = "requesting", !.hops = redirectCount,
                   !.gets = @ + 1]

\* The no-login /api/convert after the resolver has answered with a link:
\* the temp path is built, downloadFile creates the write stream (the file)
\* and calls makeRequest(url).
NoLoginDownload(r) ==
    /\ FirstFree(r)
    /\ \E p \in tempPath :
         /\ Becomes(r, MakeRequest([Nothing EXCEPT !.kind = "nologin",
                                       !.calls = 1, !.path = p,
                                       !.downloads = 1], 0))
         /\ dir' = MapSet(dir, p, now)
         /\ allocated' = IF p > allocated THEN p ELSE allocated
         /\ sameMs' = [sameMs EXCEPT !.path = TRUE]
    /\ UNCHANGED <<clockVars, authVars, missed, sweepVars, limiter, otherVars>>

\* A 3xx answer with a location header: makeRequest(location,
\* redirectCount + 1).
NoLoginRedirect(r) ==
    /\ req[r].kind = "nologin"
    /\ req[r].phase = "requesting"
    /\ Becomes(r, MakeRequest(req[r], req[r].hops + 1))
    /\ UNCHANGED <<clockVars, authVars, sameMs, fileVars, missed,
                 sweepVars, limiter, otherVars>>

\* An answer whose status is neither a redirect nor 200.
NoLoginBadStatus(r) ==
    /\ req[r].kind = "nologin"
    /\ req[r].phase = "requesting"
    /\ Becomes(r, NoLoginCatch(req[r], "Download failed with status 403"))
    /\ UNCHANGED <<clockVars, authVars, sameMs, fileVars, missed,
                 sweepVars, limiter, otherVars>>

\* A 200 answer is piped into the write stream, the stream finishes and the
\* promise resolves; the handler stats the file, sets the headers and pipes
\* a read stream of the file into the response.
NoLoginOk(r) ==
    /\ req[r].kind = "nologin"
    /\ req[r].phase = "requesting"
    /\ Becomes(r, [req[r] EXCEPT !.phase = "streaming",
                                 !.length = StatSize(req[r])])
    /\ UNCHANGED <<clockVars, authVars, sameMs, fileVars, missed,
                 sweepVars, limiter, otherVars>>

(***************************************************************************)
(* The yt-dlp variant (src/unnamed/part_001): POST /api/convert.  Its temp *)
(* files are named <<base, extension>>.                                    *)
(***************************************************************************)
\* The host allow-list (allowedDomains of isValidYouTubeUrl).
AllowedHosts ==
    {Piece.youtube_com, Piece.www_youtube_com, Piece.m_youtube_com,
     Piece.youtu_be}

\* isValidYouTubeUrl(url): validator.isURL, then the hostname of new URL(url)
\* is on the allow-list.
isValidYouTubeUrl(url) ==
    /\ isURL(url)
    /\ \E scheme \in Protocols :
         /\ LitAt(url, 1, scheme \o <<":", "/", "/">>)
         /\ LET from == Len(scheme) + 4
            IN  SubSeq(url, from, HostEnd(url, from)) \in AllowedHosts

\* The extensions of the two temp files of a request: tempVideoPath and
\* tempAudioPath.
Extensions == {"webm", "mp3"}

\* Mutant of YtCleanup: only the .mp3 file is unlinked.
YtCleanupAudioOnly(q) ==
    IF q.path = NoPath THEN q
    ELSE [q EXCEPT !.tried = {"mp3"}, !.unlinks = @ + 1]

\* if (tempVideoPath) await fs.unlink(tempVideoPath).catch(...) and the same
\* for tempAudioPath: both are null until the paths are built.
YtCleanup(q) ==
    IF q.path = NoPath THEN q
    ELSE [q EXCEPT !.tried = Extensions, !.unlinks = @ + 2]

\* The directory after the unlinks request q has tried.
YtUnlinked(q) == MapDel(dir, {<<q.path, ext>> : ext \in q.tried})

\* The catch block: clean-up, then the 500 answer unless headers were sent.
YtCatch(q) ==
    LET c == YtCleanup(q)
    IN  IF ~c.headersSent
        THEN Respond(c, 500,
               "Conversion failed. Please check the URL and try again.")
        ELSE [c EXCEPT !.phase = "done"]

\* The callback of res.download: clean-up, then the 500 answer if there is
\* an error and no headers were sent.
YtDownloadCallback(q, err) ==
    LET c == YtCleanup(q)
    IN  IF err /\ ~c.headersSent THEN Respond(c, 500, "Download failed")
        ELSE c

\* POST /api/convert with body {url}, up to `await ensureTempDir()`.
YtConvert(r, url) ==
    /\ FirstFree(r)
    /\ LET q == [Nothing EXCEPT !.kind = "ytdlp", !.url = url]
       IN  Becomes(r,
             IF url = NoUrl THEN Respond(q, 400, "URL is required")
             ELSE IF ~isValidYouTubeUrl(url)
                  THEN Respond(q, 400,
                    "Invalid YouTube URL. Only YouTube links are supported.")
             ELSE [q EXCEPT !.phase = "ensuring"])
    /\ UNCHANGED <<clockVars, authVars, sameMs, fileVars, missed,
                 sweepVars, limiter, otherVars>>

\* ensureTempDir() has settled: it threw (mkdir failed), or the two paths
\* are built and yt-dlp is started for the audio.
YtEnsured(r, ok) ==
    /\ req[r].kind = "ytdlp"
    /\ req[r].phase = "ensuring"
    /\ IF ok
       THEN \E p \in tempPath :
              /\ Becomes(r, [req[r] EXCEPT !.phase = "downloading",
                                           !.path = p])
              /\ allocated' = IF p > allocated THEN p ELSE allocated
              /\ sameMs' = [sameMs EXCEPT !.path = TRUE]
       ELSE /\ Becomes(r, YtCatch(req[r]))
            /\ UNCHANGED <<allocated, sameMs>>
    /\ UNCHANGED <<clockVars, authVars, dir, missed, sweepVars, limiter,
                 otherVars>>

\* The first yt-dlp run has ended: the .webm file is there and yt-dlp is
\* started for the info, or the run failed.
YtDownloaded(r, ok) ==
    /\ req[r].kind = "ytdlp"
    /\ req[r].phase = "downloading"
    /\ IF ok
       THEN /\ Becomes(r, [req[r] EXCEPT !.phase = "dumping"])
            /\ dir' = MapSet(dir, <<req[r].path, "webm">>, now)
       ELSE LET q == YtCatch(req[r])
            IN  /\ Becomes(r, q)
                /\ dir' = YtUnlinked(q)
    /\ UNCHANGED <<clockVars, authVars, sameMs, allocated, missed,
                 sweepVars, limiter, otherVars>>

\* The second yt-dlp run has ended: its output parses and ffmpeg is
\* started, or JSON.parse throws, or the run failed.
YtInfo(r, outcome) ==
    /\ req[r].kind = "ytdlp"
    /\ req[r].phase = "dumping"
    /\ IF outcome = "json"
       THEN /\ Becomes(r, [req[r] EXCEPT !.phase = "converting"])
            /\ UNCHANGED dir
       ELSE LET q == YtCatch(req[r])
            IN  /\ Becomes(r, q)
                /\ dir' = YtUnlinked(q)
    /\ UNCHANGED <<clockVars, authVars, sameMs, allocated, missed,
                 sweepVars, limiter, otherVars>>

\* ffmpeg has ended: 'end' with the .mp3 file written, and res.download is
\* called; or 'error', with or without part of the .mp3 file written.
YtFfmpeg(r, outcome) ==
    /\ req[r].kind = "ytdlp"
    /\ req[r].phase = "converting"
    /\ LET before == IF outcome = "error" THEN dir
                     ELSE MapSet(dir, <<req[r].path, "mp3">>, now)
       IN  IF outcome = "end"
           THEN /\ Becomes(r, [req[r] EXCEPT !.phase = "sending"])
                /\ dir' = before
           ELSE LET q == YtCatch(req[r])
                IN  /\ Becomes(r, q)
                    /\ dir' = MapDel(before,
                                 {<<q.path, ext>> : ext \in q.tried})
    /\ UNCHANGED <<clockVars, authVars, sameMs, allocated, missed,
                 sweepVars, limiter, otherVars>>

\* res.download has ended and calls back: the file was sent whole; the
\* client went away after the headers; the client went away or the file
\* could not be read before any header was sent.
YtSent(r, outcome) ==
    /\ req[r].kind = "ytdlp"
    /\ req[r].phase = "sending"
    /\ LET started == [req[r] EXCEPT !.headersSent = TRUE, !.status = 200,
                                     !.responses = @ + 1]
           q == CASE outcome = "sent" ->
                       [YtDownloadCallback(started, FALSE)
                           EXCEPT !.phase = "done"]
                  [] outcome = "aborted" ->
                       [YtDownloadCallback(started, TRUE)
                           EXCEPT !.phase = "aborted"]
                  [] OTHER -> YtDownloadCallback(req[r], TRUE)
       IN  /\ Becomes(r, q)
           /\ dir' = YtUnlinked(q)
    /\ UNCHANGED <<clockVars, authVars, sameMs, allocated, missed,
                 sweepVars, limiter, otherVars>>

(***************************************************************************)
(* cleanupOldFiles and its timer.                                          *)
(***************************************************************************)

\* Mutant of FileTooOld: >= for >.
FileTooOldInclusive(t, mtimeMs) == t - mtimeMs >= MAX_FILE_AGE_MS

\* Mutant of FileTooOld: an hour for half an hour.
FileTooOldHour(t, mtimeMs) == t - mtimeMs > 2 * MAX_FILE_AGE_MS

\* now - stats.mtimeMs > MAX_FILE_AGE_MS
FileTooOld(t, mtimeMs) == t - mtimeMs > MAX_FILE_AGE_MS

\* The orders in which fs.readdir may list the names of a set.
Listings(S) ==
    {l \in [1..Cardinality(S) -> S] : \A i, j \in DOMAIN l : i # j => l[i] # l[j]}

\* pc, files, now: where the run is, the entries still to visit, its `now`;
\* removed: the entries it has unlinked, each with the mtime it had;
\* failed: it ended in its catch block.
IdleSweep ==
    [pc |-> "idle", files |-> <<>>, now |-> 0, removed |-> EmptyMap,
     failed |-> FALSE]

\* The timer calls cleanupOldFiles: readdir, then Date.now().
SweepStart ==
    /\ timerDue
    /\ sweep.pc = "idle"
    /\ timerDue' = FALSE
    /\ \E files \in Listings(DOMAIN dir) :
         sweep' = [IdleSweep EXCEPT
                     !.pc = IF files = <<>> THEN "done" ELSE "running",
                     !.files = files, !.now = now]
    /\ sent' = Nothing
    /\ UNCHANGED <<clockVars, authVars, sameMs, req, fileVars, missed,
                 limiter, otherVars>>

\* The catch block of cleanupOldFiles: the error is logged and the function
\* returns; the entries not yet visited are not visited.
SweepCatch(sw) == [sw EXCEPT !.pc = "done", !.failed = TRUE, !.files = <<>>]

\* The body of the for loop of cleanupOldFiles on one entry of directory d:
\* the names it unlinks.
SweepUnlinks(sw, d) ==
    {file \in {Head(sw.files)} \cap DOMAIN d : FileTooOld(sw.now, d[file])}

\* One iteration of the for loop of cleanupOldFiles: stat the entry (ENOENT,
\* caught outside the loop, when a request has deleted it since readdir) and
\* unlink it when too old.
SweepEntry(sw, d) ==
    IF Head(sw.files) \notin DOMAIN d
    THEN SweepCatch(sw)
    ELSE [sw EXCEPT !.files = Tail(@),
                    !.pc = IF Tail(sw.files) = <<>> THEN "done" ELSE "running",
                    !.removed = [f \in DOMAIN @ \cup SweepUnlinks(sw, d) |->
                                   IF f \in DOMAIN @ THEN @[f] ELSE d[f]]]

\* The entries of the listing that a run left unvisited although they were
\* older than MAX_FILE_AGE_MS at its start.
LeftBehind(before, after) ==
    IF after.failed
    THEN {before.files[i] : i \in 2..Len(before.files)}
    ELSE {}

SweepStep ==
    /\ sweep.pc = "running"
    /\ sweep' = SweepEntry(sweep, dir)
    /\ dir' = MapDel(dir, SweepUnlinks(sweep, dir))
    /\ missed' = LET old == {f \in LeftBehind(sweep, sweep') \cap DOMAIN dir :
                               sweep.now - dir[f] > MAX_FILE_AGE_MS}
                 IN [f \in (DOMAIN missed \cap DOMAIN dir') \cup old |-> dir[f]]
    /\ sent' = Nothing
    /\ UNCHANGED <<clockVars, authVars, sameMs, req, allocated, timerDue,
                 limiter, otherVars>>

(***************************************************************************)
(* part_001: cleanupOldFiles, called by startServer, by its interval timer *)
(* and by the SIGTERM / SIGINT handlers.                                   *)
(***************************************************************************)
PART_SWEEP_INTERVAL_MS == 15 * 60 * 1000

Signals == {"SIGTERM", "SIGINT"}
\* What calls cleanupOldFiles.
Starters == {"startup", "timer"} \cup Signals

\* An execution of cleanupOldFiles: pc "idle" (not called), "readdir"
\* (awaiting fs.readdir), "running" (in its loop), "done", and "exited" (the
\* signal handler has gone on to process.exit(0)); files: the entries still
\* to visit; now: its Date.now().
NoRun == [pc |-> "idle", files |-> <<>>, now |-> 0]
NoRuns == [s \in Starters |-> NoRun]

InProgress(s) == runs[s].pc \in {"readdir", "running"}
Exited == \E s \in Signals : runs[s].pc = "exited"

\* The pc of an execution that has returned to its caller s.
Returned(s) == IF s \in Signals THEN "exited" ELSE "done"

\* cleanupOldFiles() is called by s and runs up to `await fs.readdir`: the
\* process runs and s is not in a call of its own.  Nothing looks whether
\* another execution is in progress.
CallCleanup(s) ==
    /\ ~Exited
    /\ runs[s].pc \in {"idle", "done"}
    /\ runs' = [runs EXCEPT ![s] = [NoRun EXCEPT !.pc = "readdir"]]

\* startServer after ensureTempDir: setInterval(cleanupOldFiles, 15 min) and
\* `await cleanupOldFiles()`.
StartServer ==
    /\ runs["startup"].pc = "idle"
    /\ CallCleanup("startup")
    /\ UNCHANGED <<clockVars, authVars, sameMs, req, sent, fileVars, missed,
                 sweepVars, limiter, offer>>

\* A SIGTERM or SIGINT reaches the process: its handler calls
\* cleanupOldFiles and awaits it.
Signal(sig) ==
    /\ runs[sig].pc = "idle"
    /\ CallCleanup(sig)
    /\ UNCHANGED <<clockVars, authVars, sameMs, req, sent, fileVars, missed,
                 sweepVars, limiter, offer>>

\* One interval passes and the timer set by startServer calls
\* cleanupOldFiles.  An execution lasts far less than the interval: the
\* clock does not advance while one is in progress.
IntervalElapses ==
    /\ ticks < MaxSweepTicks
    /\ runs["startup"].pc = "done"
    /\ \A s \in Starters : ~InProgress(s)
    /\ CallCleanup("timer")
    /\ now' = now + PART_SWEEP_INTERVAL_MS
    /\ ticks' = ticks + 1
    /\ UNCHANGED <<authVars, sameMs, req, sent, fileVars, missed, sweepVars,
                 limiter, offer>>

\* fs.readdir resolves for the execution started by s; then Date.now().
RunReaddir(s) ==
    /\ ~Exited
    /\ runs[s].pc = "readdir"
    /\ \E files \in Listings(DOMAIN dir) :
         runs' = [runs EXCEPT ![s] =
                    [pc |-> IF files = <<>> THEN Returned(s) ELSE "running",
                     files |-> files, now |-> now]]
    /\ UNCHANGED <<clockVars, authVars, sameMs, req, sent, fileVars, missed,
                 sweepVars, limiter, offer>>

\* One iteration of the loop of the execution started by s: stat and, for
\* an entry that is too old, unlink; a failure of either is caught inside
\* the loop, which goes on with the next entry.
RunEntry(s) ==
    /\ ~Exited
    /\ runs[s].pc = "running"
    /\ LET file == Head(runs[s].files)
           rest == Tail(runs[s].files)
       IN /\ runs' = [runs EXCEPT ![s].files = rest,
                                  ![s].pc = IF rest = <<>> THEN Returned(s)
                                            ELSE "running"]
          /\ dir' = IF file \in DOMAIN dir /\ FileTooOld(runs[s].now, dir[file])
                    THEN MapDel(dir, {file}) ELSE dir
    /\ UNCHANGED <<clockVars, authVars, sameMs, req, sent, allocated, missed,
                 sweepVars, limiter, offer>>

(***************************************************************************)
(* The clock.                                                              *)
(***************************************************************************)
NoneThisMs == [tok |-> FALSE, path |-> FALSE]

\* A millisecond passes: later tokens and temp paths carry another Date.now().
MsElapse ==
    /\ sameMs # NoneThisMs
    /\ sameMs' = NoneThisMs
    /\ sent' = Nothing
    /\ UNCHANGED <<clockVars, authVars, req, fileVars, missed, sweepVars,
                 limiter, otherVars>>

\* One sweep interval passes and the setInterval timer fires.  A run of
\* cleanupOldFiles lasts far less than the interval: the clock does not
\* advance while the callback is pending or running.
Tick ==
    /\ ticks < MaxTicks
    /\ ~timerDue
    /\ sweep.pc # "running"
    /\ now' = now + SWEEP_INTERVAL_MS
    /\ ticks' = ticks + 1
    /\ timerDue' = TRUE
    /\ sameMs' = NoneThisMs
    /\ sweep' = IdleSweep
    /\ sent' = Nothing
    /\ UNCHANGED <<authVars, req, fileVars, missed, limiter, otherVars>>

\* Twelve hours pass with no download and no stream in progress.  The 72
\* sweeps of that period meet no request, so none fails, and every file left
\* in the temp directory, older than MAX_FILE_AGE_MS long before the end of
\* the period, is deleted by one of them.
HalfDay ==
    /\ ticks < MaxHalfDays
    /\ \A r \in Reqs : req[r].phase \notin {"requesting", "receiving", "streaming"}
    /\ now' = now + HALF_DAY_MS
    /\ ticks' = ticks + 1
    /\ sameMs' = NoneThisMs
    /\ dir' = EmptyMap
    /\ missed' = EmptyMap
    /\ sent' = Nothing
    /\ UNCHANGED <<authVars, req, allocated, sweepVars, limiter, otherVars>>

(***************************************************************************)
(* The rate limiter (express-rate-limit) in front of the handlers, for one *)
(* client address.                                                         *)
(***************************************************************************)
\* The two deployments: app.use('/api/', limiter) of server.js, and
\* app.use('/api/convert', limiter) of the part_001 variants.
Variants == {"server.js", "part_001"}
SERVER_WINDOW_MS == 15 * 60 * 1000
SERVER_MAX == 100
CONVERT_WINDOW_MS == 60 * 60 * 1000
CONVERT_MAX == 20
\* windowMs and max of the limiter of variant v.
WindowMs(v) == IF v = "server.js" THEN SERVER_WINDOW_MS ELSE CONVERT_WINDOW_MS
Max(v) == IF v = "server.js" THEN SERVER_MAX ELSE CONVERT_MAX
\* message: { error: ... }
Message(v) ==
    IF v = "server.js" THEN "Too many requests, please try again later."
    ELSE "Too many requests. Please wait before trying again."

\* The step of the clock of SpecLimit: a whole window of server.js, half a
\* window of part_001.
StepMs(v) == IF v = "server.js" THEN SERVER_WINDOW_MS ELSE CONVERT_WINDOW_MS \div 2

\* hits: requests counted in the current window; first: when the first of
\* them came; resetTime: when the window ends; throttled: the client was
\* over the ceiling in the window before; admitted: how many requests were
\* passed on at each time of the last windowMs.
NoLimiter(v) ==
    [variant |-> v, hits |-> 0, first |-> 0, resetTime |-> 0,
     throttled |-> FALSE, admitted |-> EmptyMap]

\* Mutant of WindowElapsed: the count is never restarted.
WindowNeverElapses(l, t) == l.hits = 0

\* The store has nothing for the client, or what it has is of a window that
\* has ended.
WindowElapsed(l, t) == l.hits = 0 \/ t >= l.resetTime

\* When a window that starts with a request at time t can end: windowMs
\* later (a window per client), or at the store's next periodic reset,
\* which comes sooner.
ResetTimes(v, t) ==
    {t + k * StepMs(v) : k \in 1..(WindowMs(v) \div StepMs(v))}

\* Mutant of OverLimit: the ceiling itself is over the limit.
OverLimitInclusive(hits, max) == hits >= max

\* Mutant of OverLimit: one more than the ceiling is let through.
OverLimitLax(hits, max) == hits > max + 1

\* totalHits > max
OverLimit(hits, max) == hits > max

\* store.increment(key) for a request at time t, in a window that ends at
\* reset if it is a new one.
Increment(l, t, reset) ==
    IF WindowElapsed(l, t)
    THEN [l EXCEPT !.hits = 1, !.first = t, !.resetTime = reset,
                   !.throttled = OverLimit(l.hits, Max(l.variant))]
    ELSE [l EXCEPT !.hits = @ + 1]

\* The request is passed on (next()): one more admitted at time t.
Admit(l, t) ==
    [l EXCEPT !.admitted =
        MapSet(@, t, IF t \in DOMAIN @ THEN @[t] + 1 ELSE 1)]

\* A request of the client reaches the limiter of server.js on its way to
\* /api/info: it is counted, then answered 429 or handed to the handler.
ThrottleApi(r, token, url) ==
    /\ limiter.variant = "server.js"
    /\ FirstFree(r)
    /\ \E reset \in ResetTimes(limiter.variant, now) :
         LET l == Increment(limiter, now, reset)
         IN  /\ l.hits <= Max(l.variant) + MaxOver
             /\ IF OverLimit(l.hits, Max(l.variant))
                THEN /\ limiter' = l
                     /\ Becomes(r, Respond(Incoming("info", token, url), 429,
                                           Message(l.variant)))
                ELSE /\ limiter' = Admit(l, now)
                     /\ Becomes(r, InfoHead(Incoming("info", token, url), url))
    /\ UNCHANGED <<clockVars, authVars, sameMs, fileVars, missed, sweepVars,
                 otherVars>>

\* A request of the client reaches the limiter of part_001 on its way to
\* /api/convert: it is counted, then answered 429 or handed to the handler
\* (phase "next"), which is not followed here.
ThrottleConvert(r) ==
    /\ limiter.variant = "part_001"
    /\ FirstFree(r)
    /\ \E reset \in ResetTimes(limiter.variant, now) :
         LET l == Increment(limiter, now, reset)
             q == Incoming("convert", NoToken, NoUrl)
         IN  /\ l.hits <= Max(l.variant) + MaxOver
             /\ IF OverLimit(l.hits, Max(l.variant))
                THEN /\ limiter' = l
                     /\ sent' = Respond(q, 429, Message(l.variant))
                ELSE /\ limiter' = Admit(l, now)
                     /\ sent' = [q EXCEPT !.phase = "next"]
    /\ UNCHANGED <<clockVars, authVars, sameMs, req, fileVars, missed, sweepVars,
                 otherVars>>

\* The path the limiter is mounted on and the path of the health endpoint,
\* as the sequences of their segments.
LimiterMount(v) == IF v = "server.js" THEN <<"api">> ELSE <<"api", "convert">>
HealthPath(v) == IF v = "server.js" THEN <<"health">> ELSE <<"api", "health">>

\* Mutant of UnderMount: the middleware is mounted on every path.
UnderMountAny(path, mount) == TRUE

\* app.use(mount, middleware): the middleware runs for the requests whose
\* path starts with the segments of mount.
UnderMount(path, mount) ==
    /\ Len(mount) <= Len(path)
    /\ \A i \in 1..Len(mount) : path[i] = mount[i]

\* A request of the client to the health endpoint, with a token or none: the
\* limiter counts and decides when the route is under its mount path, then
\* the handler answers { status: 'ok' } whatever the request carries.
Health(token) ==
    /\ \E reset \in ResetTimes(limiter.variant, now) :
         LET v == limiter.variant
             q == Incoming("health", token, NoUrl)
             limited == UnderMount(HealthPath(v), LimiterMount(v))
             l == IF limited THEN Increment(limiter, now, reset) ELSE limiter
         IN  /\ l.hits <= Max(v) + MaxOver
             /\ IF limited /\ OverLimit(l.hits, Max(v))
                THEN /\ limiter' = l
                     /\ sent' = Respond(q, 429, Message(v))
                ELSE /\ limiter' = (IF limited THEN Admit(l, now) ELSE l)
                     /\ sent' = Respond(q, 200, "ok")
    /\ UNCHANGED <<clockVars, authVars, sameMs, req, fileVars, missed, sweepVars,
                 otherVars>>

\* The clock of SpecLimit moves on by one step; what was admitted more than
\* windowMs ago is forgotten.
LimitTick ==
    /\ ticks < MaxLimitTicks
    /\ now' = now + StepMs(limiter.variant)
    /\ ticks' = ticks + 1
    /\ limiter' = [limiter EXCEPT !.admitted =
         MapDel(@, {t \in DOMAIN @ : t <= now' - WindowMs(limiter.variant)})]
    /\ sameMs' = NoneThisMs
    /\ sent' = Nothing
    /\ UNCHANGED <<authVars, req, fileVars, missed, sweepVars, otherVars>>

(***************************************************************************)
(* The filename offered with the download.  A title is the sequence of its *)
(* characters.                                                             *)
(***************************************************************************)
\* The three convert handlers that name a download: app.get('/api/convert')
\* of server.js, and app.post('/api/convert') of the yt-dlp and of the
\* Cobalt variant of part_001.
NameVariants == {"server.js", "yt-dlp", "cobalt"}

\* .substring(0, 100)
TITLE_MAX == 100

AUDIO == <<"a", "u", "d", "i", "o">>
MP3_EXT == <<".", "m", "p", "3">>

\* sanitize-filename: illegalRe, and controlRe (two of its characters).
IllegalChars == {"/", "?", "<", ">", "\\", ":", "*", "|", "\""}
ControlChars == {"\n", "\t"}
\* sanitize-filename: the names of windowsReservedRe, in lower case.
WindowsReserved ==
    {<<"c", "o", "n">>, <<"p", "r", "n">>, <<"a", "u", "x">>, <<"n", "u", "l">>}

\* s.replace(re, '') for a class of characters.
Strip(s, chars) == SelectSeq(s, LAMBDA c : c \notin chars)

\* reservedRe: /^\.+$/
AllDots(s) == s # <<>> /\ \A i \in DOMAIN s : s[i] = "."

\* windowsReservedRe: a reserved name, alone or followed by an extension.
IsWindowsReserved(s) ==
    \E name \in WindowsReserved :
        /\ Len(s) >= Len(name)
        /\ SubSeq(s, 1, Len(name)) = name
        /\ Len(s) > Len(name) => s[Len(name) + 1] = "."

\* windowsTrailingRe: /[\. ]+$/ removed.
TrimTrailing(s) ==
    LET kept == {i \in DOMAIN s : s[i] \notin {".", " "}}
    IN  IF kept = {} THEN <<>>
        ELSE SubSeq(s, 1, CHOOSE i \in kept : \A j \in kept : j <= i)

\* s.substring(0, n)
Substring(s, n) == SubSeq(s, 1, IF Len(s) < n THEN Len(s) ELSE n)

\* sanitize(input) of sanitize-filename with its default replacement '': the
\* five replacements in their order, then the cut to 255 bytes.
sanitize(input) ==
    LET legal == Strip(Strip(input, IllegalChars), ControlChars)
        named == IF AllDots(legal) THEN <<>> ELSE legal
        free == IF IsWindowsReserved(named) THEN <<>> ELSE named
    IN  Substring(TrimTrailing(free), 255)

\* x || 'audio'
OrAudio(x) == IF x = <<>> THEN AUDIO ELSE x

\* The filename the handler of variant v offers for a title (the empty
\* sequence: no title in the answer).
Filename(v, title) ==
    IF v = "server.js"
    THEN OrAudio(Substring(sanitize(OrAudio(title)), TITLE_MAX)) \o MP3_EXT
    ELSE Substring(sanitize(OrAudio(title)), TITLE_MAX) \o MP3_EXT

\* How many characters follow the head of a title of the model.
MaxPad == 101
RECURSIVE Pad(_)
Pad(n) == IF n = 0 THEN <<>> ELSE <<"x">> \o Pad(n - 1)

\* The titles of the model: a head, filler around the cut at 100, a tail.
Titles ==
    {h \o Pad(n) \o t :
        h \in { <<>>, <<"a">>, <<"/">>, <<"?", "?", "?">>, <<".", ".">>,
                <<"a", "/", "b">>, <<"\n">>, <<"c", "o", "n">>,
                <<"c", "o", "n", ".", "m", "p", "3">>, <<"a", ".">>, <<" ">> },
        n \in {0, 1, TITLE_MAX - 2, TITLE_MAX - 1, TITLE_MAX, MaxPad},
        t \in {<<>>, <<".">>, <<"?">>}}

NoName == <<>>
NoOffer == [variant |-> "none", title |-> <<>>, filename |-> NoName]

\* The resolver (or yt-dlp, or Cobalt) has answered a request of variant v
\* with a title.
TitleArrives(v, title) ==
    /\ offer.variant = "none"
    /\ offer' = [variant |-> v, title |-> title, filename |-> NoName]
    /\ UNCHANGED <<clockVars, authVars, sameMs, req, sent, fileVars, missed,
                 sweepVars, limiter, runs>>

\* The handler computes the filename of the download.
OfferFilename ==
    /\ offer.variant # "none"
    /\ offer.filename = NoName
    /\ offer' = [offer EXCEPT !.filename = Filename(offer.variant, offer.title)]
    /\ UNCHANGED <<clockVars, authVars, sameMs, req, sent, fileVars, missed,
                 sweepVars, limiter, runs>>

(***************************************************************************)
(* Specifications.                                                         *)
(***************************************************************************)
Init ==
    /\ now = 0
    /\ ticks = 0
    /\ sessions = EmptyMap
    /\ minted = 0
    /\ sameMs = NoneThisMs
    /\ authResp = [password |-> NoPassword, status |-> 0, token |-> NoToken,
                   error |-> "", fresh |-> FALSE]
    /\ lastLogin = -1
    /\ evicted = {}
    /\ req = [r \in Reqs |-> IdleReq]
    /\ sent = Nothing
    /\ dir = EmptyMap
    /\ allocated = 0
    /\ missed = EmptyMap
    /\ sweep = IdleSweep
    /\ timerDue = FALSE
    /\ limiter = NoLimiter("server.js")
    /\ offer = NoOffer
    /\ runs = NoRuns

\* The state after start-up and one successful POST /api/auth at time 0.
InitLoggedIn ==
    /\ now = 0
    /\ ticks = 0
    /\ sessions = [t \in {1} |-> 0]
    /\ minted = 1
    /\ sameMs = NoneThisMs
    /\ authResp = [password |-> AUTH_PASSWORD, status |-> 200, token |-> 1,
                   error |-> "", fresh |-> TRUE]
    /\ lastLogin = 0
    /\ evicted = {}
    /\ req = [r \in Reqs |-> IdleReq]
    /\ sent = Nothing
    /\ dir = EmptyMap
    /\ allocated = 0
    /\ missed = EmptyMap
    /\ sweep = IdleSweep
    /\ timerDue = FALSE
    /\ limiter = NoLimiter("server.js")
    /\ offer = NoOffer
    /\ runs = NoRuns

\* The requests that arrive into the slots R, with a url of U, taken from
\* where the handler starts: the limiter in front of it is left as it is.
Arrivals(R, U) ==
    /\ \E r \in R, token \in PresentedTokens, url \in U :
          \/ ApiInfo(r, token, url)
          \/ ApiConvert(r, token, url)
    /\ UNCHANGED <<limiter, otherVars>>

\* The steps of the requests in flight in the slots R, but for the chunks a
\* download writes (Writes).
Pipeline(R) ==
    \E r \in R :
        \/ \E result \in {"title", "notitle", "reject"} : InfoResolved(r, result)
        \/ \E result \in {"link", "nolink", "reject"} : ConvertResolved(r, result)
        \/ DownloadRedirect(r)
        \/ DownloadBadStatus(r)
        \/ DownloadError(r)
        \/ DownloadOk(r)
        \/ DownloadStall(r)
        \/ DownloadFinish(r)
        \/ StreamEnd(r)
        \/ \E early \in BOOLEAN : StreamError(r, early)
        \/ ClientAbort(r)

\* The chunks the downloads in the slots R write to their temp files.
Writes(R) == \E r \in R : DownloadData(r)

\* The temp-file life cycle under the sweep timer, after a login: one
\* request at a time against the timer and the sweep.
Next ==
    \/ Arrivals({1}, Urls)
    \/ Pipeline({1})
    \/ Writes({1})
    \/ SweepStart
    \/ SweepStep
    \/ MsElapse
    \/ Tick

Spec == InitLoggedIn /\ [][Next]_vars

\* The answers of the resolver that end the request in the slots R.
Resolutions(R) ==
    \E r \in R :
        \/ \E result \in {"title", "notitle", "reject"} : InfoResolved(r, result)
        \/ \E result \in {"nolink", "reject"} : ConvertResolved(r, result)

\* The session registry over days: logins, and one request at a time, each
\* followed from the access gate up to the resolver's answer.
NextAuth ==
    \/ \E password \in Passwords : Auth(password)
    \/ Arrivals({1}, Urls)
    \/ Resolutions({1})
    \/ MsElapse
    \/ HalfDay

SpecAuth == Init /\ [][NextAuth]_vars

\* Validation of the url parameter: after a login, one request at a time
\* with any of the urls of UrlSamples, up to the resolver's answer.
NextUrl ==
    \/ Arrivals({1}, UrlSamples)
    \/ Resolutions({1})

SpecUrl == InitLoggedIn /\ [][NextUrl]_vars

\* The pipeline of /api/convert against its two upstream services: after a
\* login, one request at a time, with a resolver that may stay silent and
\* download urls that redirect again and again.  The clock stands still.
NextPipe ==
    \/ Arrivals({1}, Urls)
    \/ Pipeline({1})
    \/ \E r \in {1} : ResolverSilent(r)
    \/ \E r \in {1} : DownloadRedirectChain(r)
    \/ MsElapse

SpecPipe == InitLoggedIn /\ [][NextPipe]_vars

\* The urls of Urls that pass the checks of both handlers.
ConvertibleUrls ==
    {url \in Urls : url # NoUrl /\ validUrl[url] /\ videoIdOf[url] # NoId}

\* Two requests at a time: after a login, requests with a url that passes
\* the checks arrive while another is in flight, and the steps of the two
\* pipelines interleave.  The clock stands still but for the millisecond.
NextPair ==
    \/ Arrivals(Reqs, ConvertibleUrls)
    \/ Pipeline(Reqs)
    \/ MsElapse

SpecPair == InitLoggedIn /\ [][NextPair]_vars

\* The sizes of a download: after a login, one request at a time whose
\* download writes its file chunk by chunk.  The clock stands still.
NextStream ==
    \/ Arrivals({1}, ConvertibleUrls)
    \/ Pipeline({1})
    \/ \E r \in {1} : DownloadChunk(r)

SpecStream == InitLoggedIn /\ [][NextStream]_vars

\* The response shape check: after a login, one convert request at a time
\* whose resolver answers in any of the shapes of Answers; the download that
\* follows a link succeeds or fails at once.
NextShape ==
    \/ Arrivals({1}, ConvertibleUrls)
    \/ \E r \in {1}, result \in Answers : ConvertShaped(r, result)
    \/ Resolutions({1})
    \/ \E r \in {1} : DownloadBadStatus(r)

SpecShape == InitLoggedIn /\ [][NextShape]_vars

\* The downloads of the no-login variant, two at a time, each through a
\* chain of redirects of any length.  The clock stands still but for the
\* millisecond.
NextRedirect ==
    \/ \E r \in Reqs : NoLoginDownload(r)
    \/ \E r \in Reqs : NoLoginRedirect(r)
    \/ \E r \in Reqs : NoLoginBadStatus(r)
    \/ \E r \in Reqs : NoLoginOk(r)
    \/ \E r \in Reqs : StreamEnd(r)
    \/ MsElapse

SpecRedirect == Init /\ [][NextRedirect]_vars

\* The yt-dlp variant: requests, two at a time, each followed through
\* ensureTempDir, the two yt-dlp runs, ffmpeg and res.download.
NextYt ==
    \/ \E r \in Reqs, url \in Urls : YtConvert(r, url)
    \/ \E r \in Reqs, ok \in BOOLEAN : YtEnsured(r, ok)
    \/ \E r \in Reqs, ok \in BOOLEAN : YtDownloaded(r, ok)
    \/ \E r \in Reqs, outcome \in {"json", "malformed", "failed"} :
          YtInfo(r, outcome)
    \/ \E r \in Reqs, outcome \in {"end", "error", "partial"} :
          YtFfmpeg(r, outcome)
    \/ \E r \in Reqs, outcome \in {"sent", "aborted", "unsent"} :
          YtSent(r, outcome)
    \/ MsElapse

SpecYt == Init /\ [][NextYt]_vars

\* Naming the download: a title arrives, the handler names the file.
NextName ==
    \/ \E v \in NameVariants, title \in Titles : TitleArrives(v, title)
    \/ OfferFilename

SpecName == Init /\ [][NextName]_vars

\* part_001 as its module has been loaded: startServer is at its first
\* await, the signal handlers are registered, and the temp directory holds
\* what an earlier process left: nothing, or files of 10 and of 60 minutes.
InitSweeps ==
    /\ now = 0
    /\ ticks = 0
    /\ sessions = EmptyMap
    /\ minted = 0
    /\ sameMs = NoneThisMs
    /\ authResp = [password |-> NoPassword, status |-> 0, token |-> NoToken,
                   error |-> "", fresh |-> FALSE]
    /\ lastLogin = -1
    /\ evicted = {}
    /\ req = [r \in Reqs |-> IdleReq]
    /\ sent = Nothing
    /\ \E left \in SUBSET (1..MaxPaths) :
         \E old \in SUBSET left :
            dir = [f \in left |-> IF f \in old THEN 0 - 2 * MAX_FILE_AGE_MS
                                  ELSE 0 - SWEEP_INTERVAL_MS]
    /\ allocated = 0
    /\ missed = EmptyMap
    /\ sweep = IdleSweep
    /\ timerDue = FALSE
    /\ limiter = NoLimiter("part_001")
    /\ offer = NoOffer
    /\ runs = NoRuns

\* The executions of cleanupOldFiles of part_001, step by step.
NextSweeps ==
    \/ StartServer
    \/ \E sig \in Signals : Signal(sig)
    \/ IntervalElapses
    \/ \E s \in Starters : RunReaddir(s)
    \/ \E s \in Starters : RunEntry(s)

SpecSweeps == InitSweeps /\ [][NextSweeps]_vars

\* The state after start-up and one login, in either deployment.
InitLimit ==
    \E v \in Variants :
        /\ now = 0
        /\ ticks = 0
        /\ sessions = [t \in {1} |-> 0]
        /\ minted = 1
        /\ sameMs = NoneThisMs
        /\ authResp = [password |-> AUTH_PASSWORD, status |-> 200, token |-> 1,
                       error |-> "", fresh |-> TRUE]
        /\ lastLogin = 0
        /\ evicted = {}
        /\ req = [r \in Reqs |-> IdleReq]
        /\ sent = Nothing
        /\ dir = EmptyMap
        /\ allocated = 0
        /\ missed = EmptyMap
        /\ sweep = IdleSweep
        /\ timerDue = FALSE
        /\ limiter = NoLimiter(v)
        /\ offer = NoOffer
        /\ runs = NoRuns

\* The limiter: the requests of one client, one after the other, to the
\* limited route of the deployment, as the clock moves on.
NextLimit ==
    \/ \E token \in {NoToken, 1} : ThrottleApi(1, token, NoUrl)
    \/ ThrottleConvert(1)
    \/ \E token \in {NoToken, 1} : Health(token)
    \/ LimitTick

SpecLimit == InitLimit /\ [][NextLimit]_vars

(***************************************************************************)
(* Properties.                                                             *)
(***************************************************************************)
Answered == sent.kind # "none"
InFlight(r) == req[r].phase # "idle"
Age(f) == now - dir[f]

\* C1 (as claimed): after a conversion that failed once its temp path was
\* allocated (error response 500), the temp file is absent from the temp
\* directory.
C1_FailedConversionLeavesNoFile ==
    (sent.kind = "convert" /\ sent.status = 500 /\ sent.path # NoPath)
        => sent.path \notin DOMAIN dir

\* C2: when the read stream of /api/convert has reached the end of the temp
\* file and closed, the handler has unlinked the file: right after the
\* complete response the file the request allocated is not in the directory.
C2_StreamedFileIsDeleted ==
    (sent.kind = "convert" /\ sent.status = 200 /\ sent.error = "")
        => (sent.unlinks > 0 /\ sent.path \notin DOMAIN dir)

C2_Witness ==
    /\ sent.kind = "convert" /\ sent.status = 200 /\ sent.error = ""
    /\ sent.path # NoPath /\ sent.path \notin DOMAIN dir

\* C3 (as claimed): when the client has disconnected while the temp file was
\* being streamed, the handler has deleted the temp file.
C3_AbortedStreamIsCleanedUp ==
    sent.phase = "aborted" => sent.path \notin DOMAIN dir

C5_SweepDeletesExactlyTheOld ==
    /\ \A f \in DOMAIN sweep.removed :
           sweep.now - sweep.removed[f] > MAX_FILE_AGE_MS
    /\ (sweep.pc = "done" /\ ~sweep.failed)
           => \A f \in DOMAIN dir : sweep.now - dir[f] <= MAX_FILE_AGE_MS

\* A run without failure has unlinked an old entry and left one that was
\* exactly 30 minutes old.
C5_Witness ==
    /\ sweep.pc = "done" /\ ~sweep.failed
    /\ sweep.removed # EmptyMap
    /\ \E f \in DOMAIN dir : sweep.now - dir[f] = MAX_FILE_AGE_MS

\* C6 (as claimed): a run of cleanupOldFiles, also one in which stat failed
\* for an entry, has deleted every entry older than the threshold when it
\* ends.
C6_FailureDoesNotStopSweep ==
    sweep.pc = "done"
        => \A f \in DOMAIN dir : sweep.now - dir[f] <= MAX_FILE_AGE_MS

ForeignUrls ==
    {Text(u) : u \in {v \in UrlParts :
        v.scheme \notin {Piece.http_scheme, Piece.https_scheme} \/ v.host \notin AllowedHosts}}

\* Values of the url parameter that are no http/https url.
NotHttpUrls ==
    RawUrls \cup {Text(u) : u \in {v \in UrlParts : v.scheme = Piece.ftp_scheme}}

\* The valid watch, short and embed urls of the model that reference id.
Referencing(id) ==
    {Text(u) : u \in {v \in UrlParts :
        /\ v.id = id
        /\ v.scheme \in {Piece.http_scheme, Piece.https_scheme}
        /\ \/ /\ v.host = Piece.www_youtube_com
              /\ v.path \in {Piece.watch_path, Piece.watch_later_v_path}
           \/ /\ v.host = Piece.www_youtube_com
              /\ v.path = Piece.embed_path /\ v.tail = Piece.no_tail
           \/ /\ v.host = Piece.youtu_be
              /\ v.path = Piece.short_path /\ v.tail = Piece.no_tail}}

\* The recognized forms: a valid watch, short or embed url, or a bare id.
Recognized == UNION {Referencing(id) : id \in VideoIds} \cup VideoIds

\* C11 (as claimed): /api/convert answers 400 without a resolver call to
\* every url whose scheme is not http/https or whose host is not on the
\* allow-list; no such url is ever with the resolver.
C11_ForeignUrlNeverResolved ==
    /\ (sent.kind = "convert" /\ sent.known /\ sent.url \in ForeignUrls)
           => (sent.status = 400 /\ sent.calls = 0)
    /\ \A r \in Reqs :
           (InFlight(r) /\ req[r].kind = "convert")
               => req[r].url \notin ForeignUrls

C13_ValidUrlYieldsItsId ==
    \A id \in VideoIds :
        /\ (Answered /\ sent.known /\ sent.url \in Referencing(id))
               => (sent.videoId = id /\ sent.calls = 1)
        /\ \A r \in Reqs :
               (InFlight(r) /\ req[r].url \in Referencing(id))
                   => req[r].videoId = id

\* C14 (as claimed): for every string that is neither a recognized url form
\* nor a bare 11-character id, extraction yields no id and /api/info answers
\* 400; no request with such a string is ever with the resolver.
C14_UnrecognizedYieldsNoId ==
    /\ (sent.kind = "info" /\ sent.known /\ sent.url \notin Recognized)
           => (sent.status = 400 /\ sent.videoId = NoId)
    /\ \A r \in Reqs :
           (InFlight(r) /\ req[r].kind = "info") => req[r].url \in Recognized

(***************************************************************************)
(* Properties of the pipeline against its upstream services (SpecPipe).    *)
(***************************************************************************)

\* C15 (as claimed): one download follows at most 5 redirects.
C15_AtMostFiveRedirects ==
    \A r \in Reqs : req[r].hops <= MAX_REDIRECTS

\* C16 (as claimed): no request is left waiting for a resolver that never
\* answers; a timeout ends the call.
C16_SilentResolverTimesOut ==
    \A r \in Reqs : ~(req[r].phase = "hung" /\ req[r].path = NoPath)

\* C17: for one request the resolver is called at most once and downloadFile
\* at most once, a download only after the one resolver call; a request
\* answered with the failure of its resolution or download has made one
\* resolver call and at most one download.
C17_NoRetries ==
    /\ \A r \in Reqs :
           /\ req[r].calls <= 1 /\ req[r].downloads <= req[r].calls
           /\ (InFlight(r) /\ req[r].kind # "none") => req[r].calls = 1
    /\ sent.calls <= 1 /\ sent.downloads <= sent.calls
    /\ (sent.status = 500) => sent.calls = 1

\* A failed download has been reported after one resolver call and one
\* download.
C17_Witness ==
    /\ sent.kind = "convert" /\ sent.status = 500
    /\ sent.calls = 1 /\ sent.downloads = 1 /\ sent.hops > 0

(***************************************************************************)
(* Properties of the rate limiter (SpecLimit).                             *)
(***************************************************************************)
RECURSIVE SumOver(_, _)
\* The sum of f over the set S of its domain.
SumOver(f, S) ==
    IF S = {} THEN 0
    ELSE LET x == CHOOSE y \in S : TRUE IN f[x] + SumOver(f, S \ {x})

\* The latest step ended a request to the route behind the limiter.
Limited == Answered /\ sent.kind # "health"

\* Requests passed on within the last windowMs.
Recent == SumOver(limiter.admitted, DOMAIN limiter.admitted)

\* Requests passed on since the current window of the limiter started.
InWindow ==
    SumOver(limiter.admitted,
            {t \in DOMAIN limiter.admitted : t >= limiter.first})

\* C18: within one window the first max requests of the client are passed to
\* the handler and every later one is answered 429: a request is answered
\* 429 exactly when it is counted as more than the max-th of its window
\* (the 101st in server.js, the 21st in part_001), and while the window
\* lasts the requests passed on in it are the first max of those counted.
C18_CeilingThenReject ==
    /\ Limited => (sent.status = 429 <=> limiter.hits > Max(limiter.variant))
    /\ (limiter.hits > 0 /\ now < limiter.resetTime) =>
           InWindow = IF limiter.hits <= Max(limiter.variant)
                      THEN limiter.hits ELSE Max(limiter.variant)

\* The 101st request of a window of server.js has been answered 429.
C18_Witness ==
    /\ limiter.variant = "server.js"
    /\ sent.status = 429 /\ limiter.hits = SERVER_MAX + 1
    /\ InWindow = SERVER_MAX

\* C19: a window ends at most windowMs after its first counted request, and
\* a request is answered 429 only before that time: once the window of a
\* throttled client has elapsed, its next request is admitted.
C19_AdmittedAgainAfterWindow ==
    /\ limiter.hits > 0 =>
           limiter.resetTime <= limiter.first + WindowMs(limiter.variant)
    /\ (Answered /\ sent.status = 429) =>
           now < limiter.first + WindowMs(limiter.variant)

\* A client that was over the ceiling in the last window is admitted with
\* the first request of the next one.
C19_Witness ==
    /\ Answered /\ sent.status # 429
    /\ limiter.throttled /\ limiter.hits = 1 /\ limiter.first = now

\* C20 (as claimed): in no interval of 60 consecutive minutes are more than
\* 20 requests of the client passed on by the limiter of /api/convert.
C20_RollingWindowCap ==
    limiter.variant = "part_001" => Recent <= CONVERT_MAX

\* C20 (amended): the limiter of /api/convert passes on at most 20 requests
\* of the client in one of its windows, and so at most 40 in 60 consecutive
\* minutes, which can lie across two windows.
C20_CapPerLimiterWindow ==
    limiter.variant = "part_001" =>
        (InWindow <= CONVERT_MAX /\ Recent <= 2 * CONVERT_MAX)

\* More than 20 requests have been passed on within 60 minutes.
C20_Witness ==
    /\ limiter.variant = "part_001"
    /\ Recent > CONVERT_MAX /\ InWindow = CONVERT_MAX

\* C21: a request to the health endpoint (/health in server.js, /api/health
\* in part_001) is answered 200 with status ok, with or without a session
\* token and however many requests the limiter has counted for the client.
C21_HealthAlwaysOk ==
    sent.kind = "health" => (sent.status = 200 /\ sent.error = "ok")

\* The health endpoint answers ok to a client without a token whose window
\* is over the ceiling.
C21_Witness ==
    /\ sent.kind = "health" /\ sent.status = 200 /\ ~sent.known
    /\ limiter.hits > Max(limiter.variant) /\ now < limiter.resetTime

\* C30 (as claimed): on the protected endpoints of server.js the access gate
\* comes before the limiter: a request without a valid token is answered
\* 401, not 429.
C30_GateBeforeThrottle ==
    (limiter.variant = "server.js" /\ Limited /\ ~sent.known)
        => sent.status = 401

(***************************************************************************)
(* Properties of the responses.                                            *)
(***************************************************************************)
\* The `details` the code writes itself.
FixedDetails == {NoDetails, UNKNOWN_ERROR}

\* C22 (as claimed): the body of an error response of /api/info and
\* /api/convert holds nothing of the resolver's error text or of the message
\* of the caught exception: its `details`, if any, is a text of the code.
C22_NoInternalDetails ==
    (Answered /\ sent.kind \in {"info", "convert"})
        => sent.details \in FixedDetails

\* C23: a convert request gets at most one response: none while it is in
\* flight, exactly one JSON error when it fails before streaming starts,
\* and no JSON error once the headers of the audio response are committed.
C23_AtMostOneResponse ==
    /\ \A r \in Reqs : req[r].responses = 0
    /\ sent.kind = "convert" =>
         /\ sent.responses <= 1
         /\ (sent.phase = "done" /\ ~sent.headersSent)
                => (sent.responses = 1 /\ sent.status >= 400)
         /\ sent.headersSent => sent.status < 400

\* The read stream failed after the headers were committed: the response is
\* cut short and no JSON error follows.
C23_Witness ==
    /\ sent.kind = "convert" /\ sent.headersSent /\ sent.error = "truncated"
    /\ sent.responses = 1 /\ sent.unlinks = 1

(***************************************************************************)
(* Properties of the names the program generates.                          *)
(***************************************************************************)
\* C24 (as claimed): two convert requests in flight never hold the same
\* temp path.
C24_TempPathsUnique ==
    \A a, b \in Reqs :
        (a # b /\ req[a].path # NoPath /\ req[b].path # NoPath)
            => req[a].path # req[b].path

\* C25 (as claimed): a successful authentication returns a token that no
\* earlier authentication has returned.
C25_TokensUnique ==
    authResp.status = 200 => authResp.fresh

\* C26 (as claimed): in every variant the filename offered is at most 100
\* characters of title followed by '.mp3', and is never just '.mp3'.
C26_FilenameNeverBare ==
    offer.filename # NoName =>
        /\ Len(offer.filename) <= TITLE_MAX + Len(MP3_EXT)
        /\ SubSeq(offer.filename, Len(offer.filename) - Len(MP3_EXT) + 1,
                  Len(offer.filename)) = MP3_EXT
        /\ offer.filename # MP3_EXT

(***************************************************************************)
(* Properties of the executions of cleanupOldFiles.                        *)
(***************************************************************************)
\* C27 (as claimed): while a request is downloading into its temp file or
\* streaming from it, the file is in the temp directory: the sweep has not
\* deleted it.
C27_SweepSparesFilesInUse ==
    \A r \in Reqs :
        req[r].phase \in {"requesting", "receiving", "streaming"}
            => req[r].path \in DOMAIN dir

\* C29 (as claimed): in server.js a sweep runs at start-up: whenever a
\* request is answered before the first interval has passed, a run of
\* cleanupOldFiles has been started.
C29_SweepRunsAtStartup ==
    (ticks = 0 /\ Answered) => (timerDue \/ sweep.pc # "idle")

\* C28 (as claimed): two executions of cleanupOldFiles are never in progress
\* at the same time, whatever started them.
C28_NoConcurrentSweeps ==
    \A a, b \in Starters : (InProgress(a) /\ InProgress(b)) => a = b

(***************************************************************************)
(* Properties of the remaining claims.                                     *)
(***************************************************************************)
\* The latest POST /api/auth succeeded and no time has passed since.
JustLoggedIn == authResp.status = 200 /\ lastLogin = now

\* C31: right after a successful POST /api/auth the registry holds the token
\* just issued and no session older than 24 hours, and a step that takes a
\* session out of the registry takes out only one that was older than 24
\* hours.
C31_LoginEvictsExactlyTheExpired ==
    /\ [](JustLoggedIn =>
            /\ authResp.token \in DOMAIN sessions
            /\ \A t \in DOMAIN sessions :
                   now - sessions[t] <= SESSION_MAX_AGE_MS)
    /\ [][\A t \in DOMAIN sessions :
              t \notin DOMAIN sessions'
                  => now - sessions[t] > SESSION_MAX_AGE_MS]_vars

\* A login has just kept a session that is exactly 24 hours old.
C31_Witness ==
    /\ JustLoggedIn
    /\ \E t \in DOMAIN sessions : now - sessions[t] = SESSION_MAX_AGE_MS

\* C32 (as claimed): no convert request whose download was cut after the 200
\* answer had started is left unanswered; the promise of downloadFile
\* settles and the request ends with a 500 response.
C32_CutDownloadIsAnswered ==
    \A r \in Reqs : ~(req[r].phase = "hung" /\ req[r].path # NoPath)

\* C33: in GET /api/convert the headers of the audio response are set only
\* after downloadFile has completed (no request that is still downloading has
\* a Content-Length or committed headers), the Content-Length announced is
\* the size of the file as the download left it, and a response streamed to
\* its end carries that many bytes.
C33_ContentLengthIsFileSize ==
    /\ \A r \in Reqs :
           /\ req[r].phase \in {"resolving", "requesting", "receiving"}
                  => (req[r].length = NoLength /\ ~req[r].headersSent)
           /\ req[r].phase = "streaming" => req[r].length = req[r].written
    /\ (sent.kind = "convert" /\ sent.status = 200 /\ sent.error = "")
           => (sent.length = sent.written /\ sent.body = sent.length)

\* A file of several chunks has been streamed to its end.
C33_Witness ==
    /\ sent.kind = "convert" /\ sent.status = 200 /\ sent.error = ""
    /\ sent.written = MaxChunks /\ sent.body = MaxChunks
    /\ sent.length = MaxChunks

\* Some member of the answer holds a download link.
HoldsLink(result) ==
    \/ LINK \in {result.link, result.url, result.downloadUrl}
    \/ result.audio.present /\ LINK \in {result.audio.url, result.audio.link}
    \/ \E i \in DOMAIN result.formats.items :
          LINK \in {result.formats.items[i].url, result.formats.items[i].link}

C35_OnlyLoginChangesRegistry ==
    [][(sessions' # sessions \/ evicted' # evicted)
          => /\ authResp'.password = AUTH_PASSWORD
             /\ authResp'.status = 200
             /\ lastLogin' = now
             /\ req' = req]_vars

\* After a failed login a request is served with a session older than 24
\* hours, which is still in the registry.
C35_Witness ==
    /\ authResp.status = 401
    /\ Answered /\ sent.known /\ sent.status # 401
    /\ now - sessions[sent.tok] > SESSION_MAX_AGE_MS

\* C36: in the no-login variant a download in progress has followed at most
\* 5 redirects and has made one HTTP request more than it followed
\* redirects; a download that succeeded followed at most 5; and the sixth
\* redirect ends the request with 'Too many redirects' (logged, answered
\* 500) after 6 HTTP requests, without a seventh.
C36_SixthRedirectRejected ==
    /\ \A r \in Reqs :
           (req[r].kind = "nologin" /\ InFlight(r))
               => (req[r].hops <= MAX_REDIRECTS
                     /\ req[r].gets = req[r].hops + 1)
    /\ (sent.kind = "nologin" /\ sent.status = 200)
           => sent.hops <= MAX_REDIRECTS
    /\ (sent.kind = "nologin" /\ sent.hops <= MAX_REDIRECTS)
           => sent.logged # "Too many redirects"
    /\ (sent.kind = "nologin" /\ sent.hops > MAX_REDIRECTS)
           => /\ sent.hops = MAX_REDIRECTS + 1
              /\ sent.gets = MAX_REDIRECTS + 1
              /\ sent.status = 500
              /\ sent.logged = "Too many redirects"

\* A download has succeeded after exactly 5 redirects.
C36_Witness ==
    /\ sent.kind = "nologin" /\ sent.status = 200
    /\ sent.hops = MAX_REDIRECTS /\ sent.gets = MAX_REDIRECTS + 1

\* C37: in the yt-dlp variant of POST /api/convert, when a request whose
\* temp paths were built is over (answered, or its client gone), the unlink
\* of the .webm file and of the .mp3 file has been tried; an error response
\* was sent only when no headers had been sent, and no request got two
\* responses.
C37_BothFilesUnlinkedOnEveryPath ==
    /\ (sent.kind = "ytdlp" /\ sent.path # NoPath)
           => sent.tried = {"webm", "mp3"}
    /\ (sent.kind = "ytdlp" /\ sent.status \in {400, 500})
           => (~sent.headersSent /\ sent.responses = 1)
    /\ (sent.kind = "ytdlp" /\ sent.headersSent)
           => (sent.status = 200 /\ sent.responses = 1)

\* The client went away during res.download: both unlinks were tried, both
\* files are gone and no error response was sent.
C37_Witness ==
    /\ sent.kind = "ytdlp" /\ sent.phase = "aborted" /\ sent.headersSent
    /\ sent.tried = {"webm", "mp3"} /\ sent.status = 200
    /\ \A ext \in {"webm", "mp3"} : <<sent.path, ext>> \notin DOMAIN dir

====
